---- MODULE Spec2Model ----
(***************************************************************************)
(* State-machine model of backend/app/core/websocket_manager.py            *)
(* (WebSocketManager) together with the two WebSocket endpoint handlers of *)
(* backend/main.py that drive it.                                          *)
(*                                                                         *)
(* Atomicity follows asyncio: a coroutine runs without interruption until  *)
(* it awaits something that really suspends.  The suspension points are    *)
(* the transport calls (send_text, receive_text); subscribe_connection and *)
(* unsubscribe_connection contain no suspending await, so a call to them   *)
(* is part of the caller's step.  Each action below is one such run from   *)
(* one suspension point to the next.                                       *)
(***************************************************************************)
EXTENDS Integers, FiniteSets, Sequences, TLC

\* Number of WebSocket connections accepted during a run of the fan-out
\* specification (SpecFanout).
MaxConn == 3

\* Number of WebSocket connections accepted during a run of the other
\* specifications (Spec, SpecApi).
AppConn == 2

\* Channel names in use ("workflow:{id}" for workflow_id = "1", and the
\* reserved status channel).
Channels == {"workflow:1", "system"}

\* Channels that the /ws/workflow/{workflow_id} endpoint can derive.
WorkflowChannels == {"workflow:1"}

\* Python None, for a connection id and for a WebSocket argument.
NoneId == -1
NoneWs == -1

\* A connection id that uuid4 never minted (a stale or foreign token).
GhostId == 0

\* The n-th minted connection id is n; ids are never reused (uuid4).
ConnIds == 1..MaxConn
Ids == {GhostId} \cup ConnIds

\* Owner of the call frame used by callers outside the endpoint handlers.
ExtCaller == 0
Owners == {ExtCaller} \cup ConnIds

\* The largest value the clock reaches in the specification that lets time
\* pass (SpecEvents).
MaxClock == 2

\* datetime.isoformat() of the clock's values.
TimeNames == <<"t0", "t1", "t2">>
Isoformat(t) == TimeNames[t + 1]

\* A dict is the sequence of its <<key, value>> items in insertion order.
\* d[k] = v: an existing key keeps its place, a new key goes last.
DictSet(d, k, v) ==
    IF \E i \in 1..Len(d) : d[i][1] = k
    THEN [i \in 1..Len(d) |-> IF d[i][1] = k THEN <<k, v>> ELSE d[i]]
    ELSE Append(d, <<k, v>>)

DictKeys(d) == {d[i][1] : i \in 1..Len(d)}

DictGet(d, k) == d[CHOOSE i \in 1..Len(d) : d[i][1] = k][2]

\* json.dumps of a flat dict of strings: the tokens of the text, items in
\* insertion order.
RECURSIVE DumpItems(_)
DumpItems(d) ==
    IF d = <<>> THEN <<>>
    ELSE <<Head(d)[1], ":", Head(d)[2]>>
         \o (IF Tail(d) = <<>> THEN <<>> ELSE <<",">> \o DumpItems(Tail(d)))

Dumps(d) == <<"{">> \o DumpItems(d) \o <<"}">>

\* The JSON object a /ws/workflow client sends, the status_message of
\* broadcast_system_status (lines 284-291) and the payload of update_workflow
\* (workflows.py, lines 189-192).
ClientMessage == << <<"type", "cursor_moved">> >>
StatusMessage == << <<"type", "system_status">>, <<"data", "counts">> >>
WorkflowUpdated == << <<"type", "workflow_updated">>, <<"data", "workflow">> >>

\* Payloads an outside caller may pass to broadcast_to_channel: without and
\* with keys named channel and timestamp of its own.
Payloads == {WorkflowUpdated,
             << <<"channel", "mine">>, <<"type", "note">>, <<"timestamp", "then">> >>}

VARIABLES
    active_connections,     \* connection id -> WebSocket object
    channel_subscriptions,  \* channel -> set of connection ids
    connection_metadata,    \* connection id -> metadata record
    connection_channels,    \* connection id -> set of channels
    nextId,                 \* the next connection id uuid4 will mint
    handler,                \* per accepted socket: endpoint kind, channel, position
    bcast,                  \* per caller: the frame of its broadcast_to_channel call
    send,                   \* the frame of the external send_to_connection call
    publisher,              \* the broadcast_system_status task: position, and whether a cycle raised
    clock,                  \* what datetime.utcnow() returns
    api,                    \* the WebSocketManager instance of endpoints/workflows.py, and its caller's frame
    last                    \* the public call the last step completed, and its outcome

vars == <<active_connections, channel_subscriptions, connection_metadata,
          connection_channels, nextId, handler, bcast, send, publisher, clock,
          api, last>>

maps == <<active_connections, channel_subscriptions, connection_metadata,
          connection_channels>>

\* The four maps of the manager as one value.
Mgr == [ac |-> active_connections, cs |-> channel_subscriptions,
        cm |-> connection_metadata, cc |-> connection_channels]

Restrict(f, S) == [x \in S |-> f[x]]

\* What a call that returns no statistics leaves in the place of the result
\* of get_connection_stats.
NoStats == [total_connections |-> -1, total_channels |-> -1,
            channel_stats |-> [c \in {} |-> 0],
            connections_by_channel |-> [x \in {} |-> <<>>]]

\* No public call was completed by the last step.
NoCall == [op |-> "none", id |-> NoneId, ch |-> "none", out |-> "none",
           changed |-> FALSE, stats |-> NoStats]

\* The record of a completed call: its name, its arguments, what it returned
\* or raised, and whether it changed any of the four maps.
Call(op, id, ch, out, m) ==
    [op |-> op, id |-> id, ch |-> ch, out |-> out, changed |-> (m # Mgr),
     stats |-> NoStats]

\* The WebSocket object of the n-th accepted socket.
Ws(n) == n

\* metadata record stored by connect (user_id is None until authentication).
Metadata == [user_id |-> NoneId]

\* Reverse lookup: the loop "for conn_id, ws in active_connections.items()".
Resolve(ac, ws) ==
    IF \E id \in DOMAIN ac : ac[id] = ws
    THEN CHOOSE id \in DOMAIN ac : ac[id] = ws
    ELSE NoneId

\* _remove_connection without line 122, the pop of connection_channels.
RemoveConnection_KeepsChannelSet(m, id) ==
    LET keep == {c \in DOMAIN m.cs : m.cs[c] \ {id} # {}}
    IN [ac |-> Restrict(m.ac, DOMAIN m.ac \ {id}),
        cs |-> [c \in keep |-> m.cs[c] \ {id}],
        cm |-> Restrict(m.cm, DOMAIN m.cm \ {id}),
        cc |-> m.cc]

\* _remove_connection without lines 110-118, the discard from the channels'
\* subscriber sets.
RemoveConnection_KeepsSubscribers(m, id) ==
    [ac |-> Restrict(m.ac, DOMAIN m.ac \ {id}),
     cs |-> m.cs,
     cm |-> Restrict(m.cm, DOMAIN m.cm \ {id}),
     cc |-> Restrict(m.cc, DOMAIN m.cc \ {id})]

\* _remove_connection without line 121, the pop of connection_metadata.
RemoveConnection_KeepsMetadata(m, id) ==
    LET keep == {c \in DOMAIN m.cs : m.cs[c] \ {id} # {}}
    IN [ac |-> Restrict(m.ac, DOMAIN m.ac \ {id}),
        cs |-> [c \in keep |-> m.cs[c] \ {id}],
        cm |-> m.cm,
        cc |-> Restrict(m.cc, DOMAIN m.cc \ {id})]

\* _remove_connection
RemoveConnection(m, id) ==
    LET keep == {c \in DOMAIN m.cs : m.cs[c] \ {id} # {}}
    IN [ac |-> Restrict(m.ac, DOMAIN m.ac \ {id}),
        cs |-> [c \in keep |-> m.cs[c] \ {id}],
        cm |-> Restrict(m.cm, DOMAIN m.cm \ {id}),
        cc |-> Restrict(m.cc, DOMAIN m.cc \ {id})]

\* "for connection_id in failed_connections: self._remove_connection(...)"
RECURSIVE RemoveAll(_, _)
RemoveAll(m, S) ==
    IF S = {} THEN m
    ELSE LET id == CHOOSE x \in S : TRUE
         IN RemoveAll(RemoveConnection(m, id), S \ {id})

\* subscribe_connection with toggling membership: a second subscription of
\* the same pair removes it.
SubscribeConnection_Toggles(m, id, ch) ==
    LET old == IF ch \in DOMAIN m.cs THEN m.cs[ch] ELSE {}
        new == IF id \in old THEN old \ {id} ELSE old \cup {id}
        cs1 == [c \in DOMAIN m.cs \cup {ch} |-> IF c = ch THEN new ELSE m.cs[c]]
    IN IF id \in DOMAIN m.cc
       THEN [m   |-> [m EXCEPT !.cs = cs1,
                               !.cc = [m.cc EXCEPT ![id] =
                                          IF ch \in @ THEN @ \ {ch} ELSE @ \cup {ch}]],
             err |-> "none"]
       ELSE [m   |-> [m EXCEPT !.cs = cs1],
             err |-> "KeyError"]

\* subscribe_connection: the channel entry is created and the id added before
\* connection_channels[connection_id] is indexed, which raises KeyError for an
\* id that has no entry.
SubscribeConnection(m, id, ch) ==
    LET old == IF ch \in DOMAIN m.cs THEN m.cs[ch] ELSE {}
        cs1 == [c \in DOMAIN m.cs \cup {ch} |->
                    IF c = ch THEN old \cup {id} ELSE m.cs[c]]
    IN IF id \in DOMAIN m.cc
       THEN [m   |-> [m EXCEPT !.cs = cs1, !.cc = [m.cc EXCEPT ![id] = @ \cup {ch}]],
             err |-> "none"]
       ELSE [m   |-> [m EXCEPT !.cs = cs1],
             err |-> "KeyError"]

\* unsubscribe_connection without lines 160-161, the deletion of the emptied
\* channel.
UnsubscribeConnection_KeepsEmpty(m, id, ch) ==
    LET cs1 == IF ch \in DOMAIN m.cs
               THEN [m.cs EXCEPT ![ch] = @ \ {id}]
               ELSE m.cs
        cc1 == IF id \in DOMAIN m.cc
               THEN [m.cc EXCEPT ![id] = @ \ {ch}]
               ELSE m.cc
    IN [m EXCEPT !.cs = cs1, !.cc = cc1]

\* unsubscribe_connection without the test of line 160: the channel is
\* deleted whether or not it still has subscribers.
UnsubscribeConnection_DeletesChannel(m, id, ch) ==
    LET cs1 == IF ch \in DOMAIN m.cs
               THEN Restrict(m.cs, DOMAIN m.cs \ {ch})
               ELSE m.cs
        cc1 == IF id \in DOMAIN m.cc
               THEN [m.cc EXCEPT ![id] = @ \ {ch}]
               ELSE m.cc
    IN [m EXCEPT !.cs = cs1, !.cc = cc1]

\* unsubscribe_connection
UnsubscribeConnection(m, id, ch) ==
    LET cs1 == IF ch \in DOMAIN m.cs
               THEN IF m.cs[ch] \ {id} = {}
                    THEN Restrict(m.cs, DOMAIN m.cs \ {ch})
                    ELSE [m.cs EXCEPT ![ch] = @ \ {id}]
               ELSE m.cs
        cc1 == IF id \in DOMAIN m.cc
               THEN [m.cc EXCEPT ![id] = @ \ {ch}]
               ELSE m.cc
    IN [m EXCEPT !.cs = cs1, !.cc = cc1]

\* subscribe with a "break" at the end of the loop body: only one of the
\* requested channels is joined.
SubscribeAll_FirstOnly(m, id, L) ==
    IF L = {} THEN m
    ELSE SubscribeConnection(m, id, CHOOSE c \in L : TRUE).m

\* "for channel in channels: await self.subscribe_connection(connection_id, channel)"
RECURSIVE SubscribeAll(_, _, _)
SubscribeAll(m, id, L) ==
    IF L = {} THEN m
    ELSE LET ch == CHOOSE c \in L : TRUE
         IN SubscribeAll(SubscribeConnection(m, id, ch).m, id, L \ {ch})

\* list(channels), line 310: the elements of a set, each once, in the order
\* the set's iterator yields them.
RECURSIVE List(_)
List(S) ==
    IF S = {} THEN <<>>
    ELSE LET c == CHOOSE e \in S : TRUE
         IN <<c>> \o List(S \ {c})

\* get_connection_stats with total_channels taken from connection_channels.
GetConnectionStats_CountsConnections(m) ==
    [total_connections |-> Cardinality(DOMAIN m.ac),
     total_channels |-> Cardinality(DOMAIN m.cc),
     channel_stats |-> [c \in DOMAIN m.cs |-> Cardinality(m.cs[c])],
     connections_by_channel |-> [x \in DOMAIN m.cc |-> List(m.cc[x])]]

\* get_connection_stats with "if channels" added to the comprehension of
\* lines 309-312: connections without a channel are left out.
GetConnectionStats_SkipsEmpty(m) ==
    [total_connections |-> Cardinality(DOMAIN m.ac),
     total_channels |-> Cardinality(DOMAIN m.cs),
     channel_stats |-> [c \in DOMAIN m.cs |-> Cardinality(m.cs[c])],
     connections_by_channel |->
         [x \in {y \in DOMAIN m.cc : m.cc[y] # {}} |-> List(m.cc[x])]]

\* get_connection_stats
GetConnectionStats(m) ==
    [total_connections |-> Cardinality(DOMAIN m.ac),
     total_channels |-> Cardinality(DOMAIN m.cs),
     channel_stats |-> [c \in DOMAIN m.cs |-> Cardinality(m.cs[c])],
     connections_by_channel |-> [x \in DOMAIN m.cc |-> List(m.cc[x])]]

(***************************************************************************)
(* broadcast_to_channel.  The fan-out loop iterates the live set object    *)
(* channel_subscriptions[channel] and suspends in send_text inside the     *)
(* loop.  A frame records the iterator: startLen is the size the set       *)
(* iterator remembers, gone says that the iterated set object was emptied  *)
(* and dropped from the dict, added holds the ids put into the set while   *)
(* the loop was suspended (they sit before or after the iterator's cursor, *)
(* so the loop may or may not reach them), visited the ids written to,     *)
(* stamped says that message.update (lines 215-218) wrote the channel and  *)
(* timestamp keys into the caller's dict.  payload is the dict as the      *)
(* caller passed it, message the dict as it is now, text the message_text  *)
(* of line 220, wrote the <<recipient, text>> pairs handed to send_text.   *)
(***************************************************************************)
IdleFrame == [pc |-> "idle", channel |-> "none", exclude |-> NoneWs,
              exclude_id |-> NoneId, startLen |-> 0, gone |-> FALSE,
              added |-> {}, visited |-> {}, failed |-> {}, cur |-> NoneId,
              err |-> "none", stamped |-> FALSE, payload |-> <<>>,
              message |-> <<>>, text |-> <<>>, wrote |-> {}]

EndFrame(f, pc, err) ==
    [f EXCEPT !.pc = pc, !.err = err, !.cur = NoneId, !.startLen = 0,
              !.gone = FALSE, !.added = {}]

\* Lines 215-218: message.update({"channel": ..., "timestamp": ...}).
Enrich(message, ch, now) ==
    DictSet(DictSet(message, "channel", ch), "timestamp", Isoformat(now))

\* The frame at line 221: the dict updated, message_text serialized once.
Stamp(f, ch, message) ==
    [f EXCEPT !.channel = ch, !.stamped = TRUE, !.payload = message,
              !.message = Enrich(message, ch, clock),
              !.text = Dumps(Enrich(message, ch, clock))]

\* The end of broadcast_to_channel without lines 241-242, the eviction of the
\* failed connections.
Finish_NoEviction(m, f) ==
    IF f.channel \in DOMAIN m.cs
    THEN [m |-> m, f |-> EndFrame(f, "returned", "none")]
    ELSE [m |-> m, f |-> EndFrame(f, "raised", "KeyError")]

\* Lines 240-249: evict the failed ids, then the log call, whose argument
\* len(self.channel_subscriptions[channel]) raises KeyError when the channel
\* is no longer in the dict.
Finish(m, f) ==
    LET m2 == RemoveAll(m, f.failed)
    IN IF f.channel \in DOMAIN m2.cs
       THEN [m |-> m2, f |-> EndFrame(f, "returned", "none")]
       ELSE [m |-> m2, f |-> EndFrame(f, "raised", "KeyError")]

\* The loop with the enrichment and json.dumps moved inside it: the payload
\* is stamped and serialized again for every recipient.
Advance_StampsPerRecipient(m, f) ==
    IF f.gone \/ Cardinality(m.cs[f.channel]) # f.startLen
    THEN {[m |-> m, f |-> EndFrame(f, "raised", "RuntimeError")]}
    ELSE LET rest == {x \in m.cs[f.channel] :
                        /\ x \notin f.visited \/ x \in f.added
                        /\ x # f.exclude_id
                        /\ x \in DOMAIN m.ac}
         IN {[m |-> m,
              f |-> [f EXCEPT !.pc = "writing", !.cur = x,
                              !.visited = @ \cup {x}, !.added = @ \ {x},
                              !.wrote = @ \cup
                                 {<<x, Dumps(Enrich(f.payload, f.channel, clock))>>}]]
                : x \in rest}
            \cup (IF rest \subseteq f.added THEN {Finish(m, f)} ELSE {})

\* The loop without lines 227-228, the lookup of the recipient in
\* active_connections: every id of the subscriber set is written to.
Advance_NoRegistryCheck(m, f) ==
    IF f.gone \/ Cardinality(m.cs[f.channel]) # f.startLen
    THEN {[m |-> m, f |-> EndFrame(f, "raised", "RuntimeError")]}
    ELSE LET rest == {x \in m.cs[f.channel] :
                        /\ x \notin f.visited \/ x \in f.added
                        /\ x # f.exclude_id}
         IN {[m |-> m,
              f |-> [f EXCEPT !.pc = "writing", !.cur = x,
                              !.visited = @ \cup {x}, !.added = @ \ {x},
                              !.wrote = @ \cup {<<x, f.text>>}]]
                : x \in rest}
            \cup (IF rest \subseteq f.added THEN {Finish(m, f)} ELSE {})

\* Lines 223-230: one run of the loop up to the next send_text or to the end.
\* The set iterator raises RuntimeError when the set's size differs from the
\* size at the start of the iteration.
Advance(m, f) ==
    IF f.gone \/ Cardinality(m.cs[f.channel]) # f.startLen
    THEN {[m |-> m, f |-> EndFrame(f, "raised", "RuntimeError")]}
    ELSE LET rest == {x \in m.cs[f.channel] :
                        /\ x \notin f.visited \/ x \in f.added
                        /\ x # f.exclude_id
                        /\ x \in DOMAIN m.ac}
         IN {[m |-> m,
              f |-> [f EXCEPT !.pc = "writing", !.cur = x,
                              !.visited = @ \cup {x}, !.added = @ \ {x},
                              !.wrote = @ \cup {<<x, f.text>>}]]
                : x \in rest}
            \cup (IF rest \subseteq f.added THEN {Finish(m, f)} ELSE {})

\* broadcast_to_channel without lines 204-205, the early return: the payload
\* is stamped and the loop's header indexes the missing channel.
Begin_NoEarlyReturn(m, ch, message, exclude) ==
    LET f0 == [Stamp(IdleFrame, ch, message) EXCEPT
                  !.exclude = exclude,
                  !.exclude_id = IF exclude # NoneWs
                                 THEN Resolve(m.ac, exclude) ELSE NoneId]
    IN IF ch \notin DOMAIN m.cs
       THEN {[m |-> m, f |-> EndFrame(f0, "raised", "KeyError")]}
       ELSE Advance(m, [f0 EXCEPT !.startLen = Cardinality(m.cs[ch])])

\* Lines 204-221: the early return, the exclude lookup and the loop's start.
Begin(m, ch, message, exclude) ==
    IF ch \notin DOMAIN m.cs
    THEN {[m |-> m, f |-> [IdleFrame EXCEPT !.pc = "returned", !.channel = ch,
                                            !.exclude = exclude,
                                            !.payload = message,
                                            !.message = message]]}
    ELSE Advance(m, [Stamp(IdleFrame, ch, message) EXCEPT
                        !.exclude = exclude,
                        !.exclude_id = IF exclude # NoneWs
                                       THEN Resolve(m.ac, exclude) ELSE NoneId,
                        !.startLen = Cardinality(m.cs[ch])])

\* What a change of channel_subscriptions does to the iterators of the
\* broadcasts suspended in a write.
Track(frames, csOld, csNew) ==
    [o \in DOMAIN frames |->
        LET f == frames[o]
        IN IF f.pc # "writing" THEN f
           ELSE IF f.gone \/ f.channel \notin DOMAIN csNew
                THEN [f EXCEPT !.gone = TRUE, !.added = {}]
                ELSE [f EXCEPT !.added = @ \cup (csNew[f.channel] \ csOld[f.channel])]]

\* A finished call's frame shows the call's outcome in the state that follows
\* the call's last step; the next step of any task discards it.
Reap(frames) ==
    [o \in DOMAIN frames |->
        IF frames[o].pc \in {"returned", "raised"} THEN IdleFrame ELSE frames[o]]

\* The manager with a registry lock that a broadcast holds across its
\* send_text: while a write is pending, no other step changes the maps.
Store_UnderLock(m, frames) ==
    /\ m # Mgr => \A o \in DOMAIN bcast : bcast[o].pc \notin {"writing", "stalled"}
    /\ active_connections' = m.ac
    /\ channel_subscriptions' = m.cs
    /\ connection_metadata' = m.cm
    /\ connection_channels' = m.cc
    /\ bcast' = Track(frames, channel_subscriptions, m.cs)

\* Store a new manager state, telling the suspended broadcasts about it.
Store(m, frames) ==
    /\ active_connections' = m.ac
    /\ channel_subscriptions' = m.cs
    /\ connection_metadata' = m.cm
    /\ connection_channels' = m.cc
    /\ bcast' = Track(frames, channel_subscriptions, m.cs)

\* A step that leaves the four maps as they are.
Keep == Store(Mgr, Reap(bcast))

\* The envelope a handler's own task is writing to its client: the welcome
\* of connect (lines 69-73), the confirmation of subscribe (lines 189-193),
\* the pong (main.py, line 148).
NoReply == [type |-> "none", connection_id |-> NoneId, channels |-> {}]
Welcome(id) == [type |-> "connection_established", connection_id |-> id,
                channels |-> {}]
Confirmation(L) == [type |-> "subscription_confirmed", connection_id |-> NoneId,
                    channels |-> L]
Pong == [type |-> "pong", connection_id |-> NoneId, channels |-> {}]

\* A WebSocketManager as __init__ leaves it.
EmptyManager == [ac |-> <<>>, cs |-> <<>>, cm |-> <<>>, cc |-> <<>>]

Init ==
    /\ active_connections = <<>>
    /\ channel_subscriptions = <<>>
    /\ connection_metadata = <<>>
    /\ connection_channels = <<>>
    /\ nextId = 1
    /\ handler = [n \in ConnIds |-> [kind |-> "none", chan |-> "none", pc |-> "idle",
                                     reply |-> NoReply]]
    /\ bcast = [o \in Owners |-> IdleFrame]
    /\ send = [pc |-> "idle", id |-> NoneId]
    /\ publisher = [pc |-> "start", erred |-> FALSE]
    /\ clock = 0
    /\ api = [m |-> EmptyManager, f |-> IdleFrame]
    /\ last = NoCall

(***************************************************************************)
(* Endpoint handlers (main.py)                                             *)
(***************************************************************************)

\* connect, lines 46-59, up to the suspension in the welcome send_text.
\* kind "ws" is websocket_endpoint, kind "workflow" is workflow_websocket.
\* connect without lines 58-59, the subscription to the initial channel.
Connect_NoInitialChannel(kind, ch) ==
    /\ nextId <= MaxConn
    /\ LET n  == nextId
           m0 == [ac |-> (n :> Ws(n)) @@ active_connections,
                  cs |-> channel_subscriptions,
                  cm |-> (n :> Metadata) @@ connection_metadata,
                  cc |-> (n :> {}) @@ connection_channels]
           m1 == m0
       IN /\ Store(m1, Reap(bcast))
          /\ handler' = [handler EXCEPT ![n] = [kind |-> kind, chan |-> ch, pc |-> "welcome",
                                            reply |-> Welcome(n)]]
    /\ nextId' = nextId + 1
    /\ last' = NoCall
    /\ UNCHANGED <<send, publisher, clock, api>>

\* connect (see above).
Connect(kind, ch) ==
    /\ nextId <= MaxConn
    /\ LET n  == nextId
           m0 == [ac |-> (n :> Ws(n)) @@ active_connections,
                  cs |-> channel_subscriptions,
                  cm |-> (n :> Metadata) @@ connection_metadata,
                  cc |-> (n :> {}) @@ connection_channels]
           m1 == IF ch # "none" THEN SubscribeConnection(m0, n, ch).m ELSE m0
       IN /\ Store(m1, Reap(bcast))
          /\ handler' = [handler EXCEPT ![n] = [kind |-> kind, chan |-> ch, pc |-> "welcome",
                                            reply |-> Welcome(n)]]
    /\ nextId' = nextId + 1
    /\ last' = NoCall
    /\ UNCHANGED <<send, publisher, clock, api>>

ConnectWs == Connect("ws", "none")

ConnectWorkflow == \E ch \in WorkflowChannels : Connect("workflow", ch)

\* connect, lines 69-75: the welcome write completes.  Both endpoints call
\* connect outside their try block, so a failure ends the handler.
WelcomeSent(n) ==
    /\ handler[n].pc = "welcome"
    /\ handler' = [handler EXCEPT ![n].pc = "recv", ![n].reply = NoReply]
    /\ last' = Call("connect", handler[n].reply.connection_id, handler[n].chan,
                     "returned", Mgr)
    /\ Keep
    /\ UNCHANGED <<nextId, send, publisher, clock, api>>

WelcomeFailed(n) ==
    /\ handler[n].pc = "welcome"
    /\ handler' = [handler EXCEPT ![n].pc = "crashed", ![n].reply = NoReply]
    /\ last' = NoCall
    /\ Keep
    /\ UNCHANGED <<nextId, send, publisher, clock, api>>

\* receive_text raises WebSocketDisconnect: "except WebSocketDisconnect:
\* websocket_manager.disconnect(websocket)" in both endpoints.
Disconnect(m, ws) ==
    LET id == Resolve(m.ac, ws)
    IN IF id # NoneId THEN RemoveConnection(m, id) ELSE m

ClientDisconnect(n) ==
    /\ handler[n].pc = "recv"
    /\ Store(Disconnect(Mgr, Ws(n)), Reap(bcast))
    /\ handler' = [handler EXCEPT ![n].pc = "closed"]
    /\ last' = NoCall
    /\ UNCHANGED <<nextId, send, publisher, clock, api>>

\* An inbound text that json.loads rejects ("notjson"), or that parses to a
\* JSON value that is not an object ("nonobject").
\* /ws: JSONDecodeError, or AttributeError from message.get, is caught by
\* "except Exception", which logs "WebSocket error" and calls disconnect
\* (position "failed").
\* /ws/workflow: JSONDecodeError is not caught; a non-object reaches
\* broadcast_to_channel, which returns at once when the channel is absent and
\* otherwise raises AttributeError from message.update.
RecvMalformed(n, what) ==
    /\ handler[n].pc = "recv"
    /\ IF handler[n].kind = "ws"
       THEN /\ Store(Disconnect(Mgr, Ws(n)), Reap(bcast))
            /\ handler' = [handler EXCEPT ![n].pc = "failed"]
       ELSE /\ Keep
            /\ handler' = [handler EXCEPT ![n].pc =
                              IF what = "nonobject"
                                 /\ handler[n].chan \notin DOMAIN channel_subscriptions
                              THEN "recv" ELSE "crashed"]
    /\ last' = NoCall
    /\ UNCHANGED <<nextId, send, publisher, clock, api>>

\* /ws, {"type": "subscribe", "channels": L}: subscribe, lines 174-186, up to
\* the suspension in the confirmation send_text.
RecvSubscribe(n, L) ==
    /\ handler[n].pc = "recv"
    /\ handler[n].kind = "ws"
    /\ LET id == Resolve(active_connections, Ws(n))
       IN IF id = NoneId
          THEN Keep /\ UNCHANGED handler
          ELSE /\ Store(SubscribeAll(Mgr, id, L), Reap(bcast))
               /\ handler' = [handler EXCEPT ![n].pc = "confirm",
                                              ![n].reply = Confirmation(L)]
    /\ last' = NoCall
    /\ UNCHANGED <<nextId, send, publisher, clock, api>>

\* /ws, {"type": "ping"}: the handler suspends in the pong send_text.
RecvPing(n) ==
    /\ handler[n].pc = "recv"
    /\ handler[n].kind = "ws"
    /\ handler' = [handler EXCEPT ![n].pc = "pong", ![n].reply = Pong]
    /\ last' = NoCall
    /\ Keep
    /\ UNCHANGED <<nextId, send, publisher, clock, api>>

\* The confirmation or the pong write completes.
ReplySent(n) ==
    /\ handler[n].pc \in {"confirm", "pong"}
    /\ handler' = [handler EXCEPT ![n].pc = "recv", ![n].reply = NoReply]
    /\ last' = NoCall
    /\ Keep
    /\ UNCHANGED <<nextId, send, publisher, clock, api>>

\* The confirmation or the pong write fails: the exception reaches the
\* handler's except clauses, both of which call disconnect.
ReplyFailed(n) ==
    /\ handler[n].pc \in {"confirm", "pong"}
    /\ Store(Disconnect(Mgr, Ws(n)), Reap(bcast))
    /\ handler' = [handler EXCEPT ![n].pc = "closed", ![n].reply = NoReply]
    /\ last' = NoCall
    /\ UNCHANGED <<nextId, send, publisher, clock, api>>

\* The handler's position after its broadcast_to_channel call made a step:
\* an exception out of the call is not WebSocketDisconnect and ends the
\* handler without disconnect.
AfterBroadcast(f) ==
    CASE f.pc = "writing"  -> "bcast"
      [] f.pc = "returned" -> "recv"
      [] f.pc = "raised"   -> "crashed"

\* /ws/workflow, a JSON object arrives: broadcast_to_channel(channel,
\* message, exclude=websocket).
RecvMessage(n) ==
    /\ handler[n].pc = "recv"
    /\ handler[n].kind = "workflow"
    /\ \E out \in Begin(Mgr, handler[n].chan, ClientMessage, Ws(n)) :
          /\ Store(out.m, [Reap(bcast) EXCEPT ![n] = out.f])
          /\ handler' = [handler EXCEPT ![n].pc = AfterBroadcast(out.f)]
    /\ last' = NoCall
    /\ UNCHANGED <<nextId, send, publisher, clock, api>>

(***************************************************************************)
(* broadcast_system_status (lines 280-298).  The task's positions: "start" *)
(* before the first cycle, "cycle" inside broadcast_to_channel("system"),  *)
(* "sleep30" in asyncio.sleep(30) after a cycle that returned, "sleep60"   *)
(* in asyncio.sleep(60) of the except clause, "dead" when an exception left *)
(* the coroutine.                                                          *)
(***************************************************************************)

\* The loop without its "except Exception" clause: an exception out of
\* broadcast_to_channel ends the task.
AfterCycle_NoExcept(p, f) ==
    CASE f.pc = "writing"  -> [p EXCEPT !.pc = "cycle"]
      [] f.pc = "returned" -> [p EXCEPT !.pc = "sleep30"]
      [] f.pc = "raised"   -> [pc |-> "dead", erred |-> TRUE]

\* The task's position after its broadcast_to_channel call made a step:
\* RuntimeError and KeyError are Exceptions, which line 296 catches.
AfterCycle(p, f) ==
    CASE f.pc = "writing"  -> [p EXCEPT !.pc = "cycle"]
      [] f.pc = "returned" -> [p EXCEPT !.pc = "sleep30"]
      [] f.pc = "raised"   -> [pc |-> "sleep60", erred |-> TRUE]

(***************************************************************************)
(* broadcast_to_channel, a write completes (lines 230-249)                 *)
(***************************************************************************)
WriteDone(o, ok) ==
    /\ bcast[o].pc = "writing"
    /\ LET f1 == IF ok THEN bcast[o]
                 ELSE [bcast[o] EXCEPT !.failed = @ \cup {bcast[o].cur}]
       IN \E out \in Advance(Mgr, f1) :
             /\ Store(out.m, [Reap(bcast) EXCEPT ![o] = out.f])
             /\ IF o \in ConnIds
                THEN handler' = [handler EXCEPT ![o].pc = AfterBroadcast(out.f)]
                ELSE UNCHANGED handler
             /\ IF o = ExtCaller /\ publisher.pc = "cycle"
                THEN publisher' = AfterCycle(publisher, out.f)
                ELSE UNCHANGED publisher
             /\ last' = NoCall
    /\ UNCHANGED <<nextId, send, clock, api>>

(***************************************************************************)
(* Calls of the manager's public methods by other callers                  *)
(***************************************************************************)
CallSubscribeConnection(x, ch) ==
    /\ LET r == SubscribeConnection(Mgr, x, ch)
       IN /\ Store(r.m, Reap(bcast))
          /\ last' = Call("subscribe_connection", x, ch,
                           IF r.err = "none" THEN "ok" ELSE r.err, r.m)
    /\ UNCHANGED <<nextId, handler, send, publisher, clock, api>>

CallUnsubscribeConnection(x, ch) ==
    /\ Store(UnsubscribeConnection(Mgr, x, ch), Reap(bcast))
    /\ last' = Call("unsubscribe_connection", x, ch, "ok",
                     UnsubscribeConnection(Mgr, x, ch))
    /\ UNCHANGED <<nextId, handler, send, publisher, clock, api>>

CallDisconnectById(x) ==
    /\ Store(RemoveConnection(Mgr, x), Reap(bcast))
    /\ last' = Call("disconnect_by_id", x, "none", "ok", RemoveConnection(Mgr, x))
    /\ UNCHANGED <<nextId, handler, send, publisher, clock, api>>

\* broadcast_to_channel(channel, message) on the manager of main.py by a
\* caller outside the endpoint handlers, without exclude; the frame keeps the
\* call's outcome.
CallBroadcastWith(ch, message) ==
    /\ bcast[ExtCaller].pc # "writing"
    /\ \E out \in Begin(Mgr, ch, message, NoneWs) :
          Store(out.m, [Reap(bcast) EXCEPT ![ExtCaller] = out.f])
    /\ last' = NoCall
    /\ UNCHANGED <<nextId, handler, send, publisher, clock, api>>

CallBroadcast(ch) == CallBroadcastWith(ch, WorkflowUpdated)

\* send_to_connection without lines 259-262, the lookup that returns False
\* for an id that is not in active_connections.
CallSend_NoLookup(x) ==
    /\ send.pc # "writing"
    /\ send' = [pc |-> "writing", id |-> x]
    /\ last' = NoCall
    /\ Keep
    /\ UNCHANGED <<nextId, handler, publisher, clock, api>>

\* send_to_connection, lines 259-269, up to the suspension in send_text.
CallSend(x) ==
    /\ send.pc # "writing"
    /\ IF x \in DOMAIN active_connections
       THEN /\ send' = [pc |-> "writing", id |-> x]
            /\ last' = NoCall
       ELSE /\ send' = [pc |-> "idle", id |-> NoneId]
            /\ last' = Call("send_to_connection", x, "none", "False", Mgr)
    /\ Keep
    /\ UNCHANGED <<nextId, handler, publisher, clock, api>>

\* send_to_connection without line 277, the eviction after a failed write.
SendDone_NoEviction(ok) ==
    /\ send.pc = "writing"
    /\ Keep
    /\ last' = Call("send_to_connection", send.id, "none",
                     IF ok THEN "True" ELSE "False", Mgr)
    /\ send' = [pc |-> "idle", id |-> NoneId]
    /\ UNCHANGED <<nextId, handler, publisher, clock, api>>

\* send_to_connection, lines 270-278.
SendDone(ok) ==
    /\ send.pc = "writing"
    /\ IF ok
       THEN /\ Keep
            /\ last' = Call("send_to_connection", send.id, "none", "True", Mgr)
       ELSE /\ Store(RemoveConnection(Mgr, send.id), Reap(bcast))
            /\ last' = Call("send_to_connection", send.id, "none", "False",
                             RemoveConnection(Mgr, send.id))
    /\ send' = [pc |-> "idle", id |-> NoneId]
    /\ UNCHANGED <<nextId, handler, publisher, clock, api>>

\* Identities a caller can name: every id minted so far, or one that was
\* never minted.
KnownIds == {GhostId} \cup (1..(nextId - 1))

\* The application as main.py wires it: the two endpoint handlers, the
\* broadcasts of other callers, and removal by id.
Next ==
    \/ nextId <= AppConn /\ ConnectWs
    \/ nextId <= AppConn /\ ConnectWorkflow
    \/ \E n \in ConnIds : WelcomeSent(n)
    \/ \E n \in ConnIds : WelcomeFailed(n)
    \/ \E n \in ConnIds : ClientDisconnect(n)
    \/ \E n \in ConnIds, what \in {"notjson", "nonobject"} : RecvMalformed(n, what)
    \/ \E n \in ConnIds, L \in SUBSET Channels : RecvSubscribe(n, L)
    \/ \E n \in ConnIds : RecvPing(n)
    \/ \E n \in ConnIds : ReplySent(n)
    \/ \E n \in ConnIds : ReplyFailed(n)
    \/ \E n \in ConnIds : RecvMessage(n)
    \/ \E o \in Owners, ok \in BOOLEAN : WriteDone(o, ok)
    \/ \E ch \in Channels : CallBroadcast(ch)
    \/ \E x \in KnownIds : CallDisconnectById(x)

Spec == Init /\ [][Next]_vars

\* The manager's public methods called with any identity, registered or not,
\* on connections that the /ws endpoint accepts and closes.
NextApi ==
    \/ nextId <= AppConn /\ ConnectWs
    \/ \E n \in ConnIds : WelcomeSent(n)
    \/ \E n \in ConnIds : WelcomeFailed(n)
    \/ \E n \in ConnIds : ClientDisconnect(n)
    \/ \E x \in KnownIds, ch \in Channels : CallSubscribeConnection(x, ch)
    \/ \E x \in KnownIds, ch \in Channels : CallUnsubscribeConnection(x, ch)
    \/ \E x \in KnownIds : CallDisconnectById(x)
    \/ \E x \in KnownIds : CallSend(x)
    \/ \E ok \in BOOLEAN : SendDone(ok)

SpecApi == Init /\ [][NextApi]_vars

\* The fan-out of broadcast_to_channel among the connections of the
\* /ws/workflow endpoint: the messages they send to each other, and clients
\* that join or leave while a broadcast is suspended in a write.
NextFanout ==
    \/ ConnectWorkflow
    \/ \E n \in ConnIds : WelcomeSent(n)
    \/ \E n \in ConnIds : ClientDisconnect(n)
    \/ \E n \in ConnIds : RecvMessage(n)
    \/ \E o \in Owners, ok \in BOOLEAN : WriteDone(o, ok)

SpecFanout == Init /\ [][NextFanout]_vars

\* broadcast_system_status, lines 282-298: the sleep is over and the next
\* cycle calls broadcast_to_channel("system", status_message).
StatusCycle ==
    /\ publisher.pc \in {"start", "sleep30", "sleep60"}
    /\ \E out \in Begin(Mgr, "system", StatusMessage, NoneWs) :
          /\ Store(out.m, [Reap(bcast) EXCEPT ![ExtCaller] = out.f])
          /\ publisher' = AfterCycle(publisher, out.f)
    /\ last' = NoCall
    /\ UNCHANGED <<nextId, handler, send, clock, api>>

\* The peer of the socket a broadcast is writing to stops reading for good:
\* "await websocket.send_text(message_text)" (line 230) has no timeout, so
\* the coroutine stays suspended in it.
WriteStalls(o) ==
    /\ bcast[o].pc = "writing"
    /\ Store(Mgr, [Reap(bcast) EXCEPT ![o].pc = "stalled"])
    /\ last' = NoCall
    /\ UNCHANGED <<nextId, handler, send, publisher, clock, api>>

\* The status publisher and the /ws clients that subscribe to its channel.
NextStatus ==
    \/ nextId <= AppConn /\ ConnectWs
    \/ \E n \in ConnIds : WelcomeSent(n)
    \/ \E n \in ConnIds, L \in SUBSET Channels : RecvSubscribe(n, L)
    \/ \E n \in ConnIds : ReplySent(n)
    \/ \E n \in ConnIds : ClientDisconnect(n)
    \/ StatusCycle
    \/ \E o \in Owners, ok \in BOOLEAN : WriteDone(o, ok)
    \/ \E o \in Owners : WriteStalls(o)

\* The event loop resumes the publisher when its sleep is over, and a write
\* that the transport completes or rejects resumes the broadcast.
SpecStatus ==
    /\ Init
    /\ [][NextStatus]_vars
    /\ WF_vars(StatusCycle)
    /\ WF_vars(\E ok \in BOOLEAN : WriteDone(ExtCaller, ok))

\* Time passes: datetime.utcnow() returns a later value.
Tick ==
    /\ clock < MaxClock
    /\ clock' = clock + 1
    /\ Keep
    /\ last' = NoCall
    /\ UNCHANGED <<nextId, handler, send, publisher, api>>

\* update_workflow (workflows.py, lines 186-193): broadcast_to_channel on the
\* module's own manager, "websocket_manager = WebSocketManager()" of line 40,
\* which is not the instance of main.py (line 50) that the WebSocket
\* endpoints register connections in.
UpdateWorkflow(ch) ==
    /\ api.f.pc # "writing"
    /\ \E out \in Begin(api.m, ch, WorkflowUpdated, NoneWs) :
          api' = [m |-> out.m, f |-> out.f]
    /\ Keep
    /\ last' = NoCall
    /\ UNCHANGED <<nextId, handler, send, publisher, clock>>

\* Application events: the clients of /ws/workflow/{id}, broadcasts with the
\* payloads of outside callers while time passes, and the workflow HTTP
\* endpoint.
NextEvents ==
    \/ nextId <= AppConn /\ ConnectWorkflow
    \/ \E n \in ConnIds : WelcomeSent(n)
    \/ \E n \in ConnIds : ClientDisconnect(n)
    \/ \E n \in ConnIds : RecvMessage(n)
    \/ \E ch \in WorkflowChannels, message \in Payloads : CallBroadcastWith(ch, message)
    \/ \E o \in Owners, ok \in BOOLEAN : WriteDone(o, ok)
    \/ \E ch \in WorkflowChannels : UpdateWorkflow(ch)
    \/ Tick

SpecEvents == Init /\ [][NextEvents]_vars

\* get_connection_stats() called on the manager of main.py; the method has no
\* await and no assignment to the manager's attributes.
CallGetConnectionStats ==
    /\ Keep
    /\ last' = [Call("get_connection_stats", NoneId, "none", "returned", Mgr)
                EXCEPT !.stats = GetConnectionStats(Mgr)]
    /\ UNCHANGED <<nextId, handler, send, publisher, clock, api>>

\* Statistics read between the steps of /ws clients that subscribe, and of
\* callers that subscribe and unsubscribe identities directly.
NextStats ==
    \/ nextId <= AppConn /\ ConnectWs
    \/ \E n \in ConnIds : WelcomeSent(n)
    \/ \E n \in ConnIds, L \in SUBSET Channels : RecvSubscribe(n, L)
    \/ \E n \in ConnIds : ReplySent(n)
    \/ \E n \in ConnIds : ClientDisconnect(n)
    \/ \E x \in KnownIds, ch \in Channels : CallSubscribeConnection(x, ch)
    \/ \E x \in KnownIds, ch \in Channels : CallUnsubscribeConnection(x, ch)
    \/ CallGetConnectionStats

SpecStats == Init /\ [][NextStats]_vars

\* The task's position if line 296 read "except BaseException": the
\* CancelledError thrown into the try block is logged and the loop goes on
\* with asyncio.sleep(60).
Cancel_Absorbed(p) ==
    IF p.pc \in {"cycle", "sleep30"}
    THEN [pc |-> "sleep60", erred |-> TRUE]
    ELSE [p EXCEPT !.pc = "cancelled"]

\* task.cancel() throws CancelledError into the task at the await it is
\* suspended in.  CancelledError derives from BaseException (Python 3.8 and
\* later), so neither "except Exception" of line 231 nor that of line 296
\* catches it: it leaves the coroutine and the task is done.
Cancel(p) == [p EXCEPT !.pc = "cancelled"]

\* The broadcast_system_status task created at main.py, line 61, is
\* cancelled (by the event loop's shutdown; lifespan itself cancels nothing
\* after its yield).  A broadcast suspended in send_text (line 230) is left
\* by the exception without reaching the eviction of lines 241-242.
CancelPublisher ==
    /\ publisher.pc \in {"start", "cycle", "sleep30", "sleep60"}
    /\ publisher' = Cancel(publisher)
    /\ IF publisher.pc = "cycle"
       THEN Store(Mgr, [Reap(bcast) EXCEPT ![ExtCaller] =
                          EndFrame(bcast[ExtCaller], "raised", "CancelledError")])
       ELSE Keep
    /\ last' = NoCall
    /\ UNCHANGED <<nextId, handler, send, clock, api>>

\* A broadcast on "system" whose recipient is slow or has stopped reading,
\* next to clients that connect, subscribe and leave and callers that
\* unsubscribe a connection.
NextStall ==
    \/ nextId <= AppConn /\ ConnectWs
    \/ \E n \in ConnIds : WelcomeSent(n)
    \/ \E n \in ConnIds : RecvSubscribe(n, {"system"})
    \/ \E n \in ConnIds : ReplySent(n)
    \/ \E n \in ConnIds : ClientDisconnect(n)
    \/ \E x \in 1..(nextId - 1) : CallUnsubscribeConnection(x, "system")
    \/ CallBroadcast("system")
    \/ \E o \in Owners, ok \in BOOLEAN : WriteDone(o, ok)
    \/ \E o \in Owners : WriteStalls(o)

SpecStall == Init /\ [][NextStall]_vars

\* Everything that runs on the manager of main.py in the application: the
\* handlers of both endpoints with the broadcasts they start, targeted sends
\* and the status publisher.
NextApp ==
    \/ nextId <= AppConn /\ ConnectWs
    \/ nextId <= AppConn /\ ConnectWorkflow
    \/ \E n \in ConnIds : WelcomeSent(n)
    \/ \E n \in ConnIds : WelcomeFailed(n)
    \/ \E n \in ConnIds : ClientDisconnect(n)
    \/ \E n \in ConnIds, what \in {"notjson", "nonobject"} : RecvMalformed(n, what)
    \/ \E n \in ConnIds, L \in SUBSET Channels : RecvSubscribe(n, L)
    \/ \E n \in ConnIds : ReplySent(n)
    \/ \E n \in ConnIds : ReplyFailed(n)
    \/ \E n \in ConnIds : RecvMessage(n)
    \/ \E o \in Owners, ok \in BOOLEAN : WriteDone(o, ok)
    \/ \E x \in KnownIds : CallSend(x)
    \/ \E ok \in BOOLEAN : SendDone(ok)
    \/ StatusCycle

SpecApp == Init /\ [][NextApp]_vars

\* Every operation of the manager next to each other: clients that connect
\* to /ws/workflow/{id} and leave, and callers that subscribe, unsubscribe,
\* remove, broadcast to and send to any identity that was minted, whether
\* it is still registered or not.
NextOps ==
    \/ nextId <= AppConn /\ ConnectWorkflow
    \/ \E n \in ConnIds : WelcomeSent(n)
    \/ \E n \in ConnIds : ClientDisconnect(n)
    \/ \E o \in Owners, ok \in BOOLEAN : WriteDone(o, ok)
    \/ \E x \in 1..(nextId - 1), ch \in WorkflowChannels : CallSubscribeConnection(x, ch)
    \/ \E x \in 1..(nextId - 1), ch \in WorkflowChannels : CallUnsubscribeConnection(x, ch)
    \/ \E x \in 1..(nextId - 1) : CallDisconnectById(x)
    \/ \E ch \in WorkflowChannels : CallBroadcast(ch)
    \/ \E x \in 1..(nextId - 1) : CallSend(x)
    \/ \E ok \in BOOLEAN : SendDone(ok)

SpecOps == Init /\ [][NextOps]_vars

\* The status publisher, its subscribers, and the shutdown of the process.
NextShutdown ==
    \/ nextId <= AppConn /\ ConnectWs
    \/ \E n \in ConnIds : WelcomeSent(n)
    \/ \E n \in ConnIds, L \in SUBSET Channels : RecvSubscribe(n, L)
    \/ \E n \in ConnIds : ReplySent(n)
    \/ \E n \in ConnIds : ClientDisconnect(n)
    \/ StatusCycle
    \/ \E o \in Owners, ok \in BOOLEAN : WriteDone(o, ok)
    \/ \E o \in Owners : WriteStalls(o)
    \/ CancelPublisher

SpecShutdown == Init /\ [][NextShutdown]_vars

(***************************************************************************)
(* Properties                                                              *)
(***************************************************************************)

\* The identity x is in none of the three per-connection maps and in no
\* channel's subscriber set.
Absent(x) ==
    /\ x \notin DOMAIN active_connections
    /\ x \notin DOMAIN connection_metadata
    /\ x \notin DOMAIN connection_channels
    /\ \A c \in DOMAIN channel_subscriptions : x \notin channel_subscriptions[c]

\* The broadcast of owner o ends in this step, after at least one write.
Ends(o, how) == bcast[o].pc = "writing" /\ bcast'[o].pc = how

\* The identities that were in the broadcast's channel when its loop started
\* and have been there ever since, that are registered, and that the
\* broadcast does not exclude.
Stable(o) ==
    IF bcast[o].gone \/ bcast[o].channel \notin DOMAIN channel_subscriptions
    THEN {}
    ELSE {x \in channel_subscriptions[bcast[o].channel] \ bcast[o].added :
            x # bcast[o].exclude_id /\ x \in DOMAIN active_connections}

\* C1: for every identity x and channel c, x is in channel_subscriptions[c]
\* if and only if c is in connection_channels[x], in every state between
\* operations, also after calls whose identity argument is not registered.
C1_MirrorConsistency ==
    \A x \in Ids, c \in Channels :
        (c \in DOMAIN channel_subscriptions /\ x \in channel_subscriptions[c])
        <=> (x \in DOMAIN connection_channels /\ c \in connection_channels[x])

\* C2: every key of channel_subscriptions maps to a non-empty subscriber
\* set, in every reachable state.
C2_NoEmptyChannel ==
    \A c \in DOMAIN channel_subscriptions : channel_subscriptions[c] # {}

\* C2 witness: unsubscribe_connection has just removed the last subscriber of
\* its channel, which is gone, while the connection stays registered.
C2_Witness ==
    /\ last.op = "unsubscribe_connection"
    /\ last.changed
    /\ last.id \in DOMAIN active_connections
    /\ last.ch \notin DOMAIN channel_subscriptions

\* C3: when a broadcast in which a write failed is over, every identity whose
\* write failed is absent from the three per-connection maps and from every
\* channel's subscriber set, and every other non-excluded registered
\* subscriber that stayed in the channel was written to in that broadcast
\* (its write did not fail, so it received the envelope).
C3_FailureIsolated ==
    [][\A o \in Owners :
          ((Ends(o, "returned") \/ Ends(o, "raised"))
             /\ bcast'[o].failed # {}) =>
              /\ \A x \in bcast'[o].failed : Absent(x)'
              /\ Stable(o) \subseteq bcast'[o].visited]_vars

\* The same for the broadcasts that return normally: the eviction loop and
\* the fan-out loop then ran to their ends.
FailureIsolatedOnReturn ==
    [][\A o \in Owners :
          Ends(o, "returned") =>
              /\ \A x \in bcast'[o].failed : Absent(x)'
              /\ Stable(o) \subseteq bcast'[o].visited]_vars

\* A broadcast has returned after the write to one subscriber
\* failed and the write to another succeeded; the first is evicted, the
\* second still registered.
FailureIsolatedReached ==
    \E o \in Owners :
        /\ bcast[o].pc = "returned"
        /\ \E x \in bcast[o].failed : Absent(x)
        /\ \E y \in bcast[o].visited \ bcast[o].failed :
              y \in DOMAIN active_connections

\* C4: a broadcast completes without raising whatever other tasks do to its
\* channel's subscriber set while it is suspended in a write; the iteration
\* never meets a set that changed under it.
C4_StableSnapshot ==
    \A o \in Owners : ~(bcast[o].pc = "raised" /\ bcast[o].err = "RuntimeError")

\* C5: broadcast_to_channel returns normally whichever writes fail, also when
\* every remaining subscriber fails and their eviction removes the channel.
C5_NeverRaisesOnWriteFailure ==
    \A o \in Owners : ~(bcast[o].pc = "raised" /\ bcast[o].err = "KeyError")

\* C6: whenever a transport write to a connection fails (the welcome write of
\* connect, the confirmation of subscribe, the pong, a broadcast write), that
\* connection is absent from every map once the operation has ended.
C6_WriteFailureEvicts ==
    [][/\ \A n \in ConnIds : (WelcomeFailed(n) \/ ReplyFailed(n)) => Absent(n)'
       /\ \A o \in Owners :
             (Ends(o, "returned") \/ Ends(o, "raised")) =>
                 \A x \in bcast'[o].failed : Absent(x)']_vars

\* C7: a broadcast whose exclude socket is a registered connection never
\* writes to that socket, and, whether it returns or raises, it has written to
\* every other registered subscriber that stayed in its channel.
C7_ExcludeNeverDelivered ==
    [][\A o \in Owners :
          /\ \A x \in bcast'[o].visited : Ws(x) # bcast'[o].exclude
          /\ ((Ends(o, "returned") \/ Ends(o, "raised"))
                /\ bcast[o].exclude_id # NoneId) =>
                 Stable(o) \subseteq bcast'[o].visited]_vars

\* C8: a step that removes connections from the registry leaves each of them
\* in no map and in no subscriber set, drops exactly the channels it empties,
\* takes exactly the removed identities out of every other channel, and
\* leaves every other connection's socket, metadata and channel set as they
\* were.
C8_EvictionFrame ==
    [][LET Ev == DOMAIN active_connections \ DOMAIN active_connections'
       IN Ev # {} =>
            /\ \A x \in Ev : Absent(x)'
            /\ \A y \in DOMAIN active_connections \ Ev :
                  /\ y \in DOMAIN active_connections'
                  /\ active_connections'[y] = active_connections[y]
                  /\ y \in DOMAIN connection_metadata'
                  /\ connection_metadata'[y] = connection_metadata[y]
                  /\ y \in DOMAIN connection_channels'
                  /\ connection_channels'[y] = connection_channels[y]
            /\ DOMAIN channel_subscriptions' =
                  {c \in DOMAIN channel_subscriptions :
                      channel_subscriptions[c] \ Ev # {}}
            /\ \A c \in DOMAIN channel_subscriptions' :
                  channel_subscriptions'[c] = channel_subscriptions[c] \ Ev]_vars

\* C8 witness: disconnect_by_id has just removed a registered connection and
\* with it a channel of which it was the only subscriber, while another
\* connection is still registered and subscribed.
C8_Witness ==
    /\ last.op = "disconnect_by_id"
    /\ last.changed
    /\ Absent(last.id)
    /\ \E c \in Channels : c \notin DOMAIN channel_subscriptions
    /\ \E y \in DOMAIN active_connections : connection_channels[y] # {}

\* C9: subscribe_connection and unsubscribe_connection with an identity that
\* is not registered return normally and leave the four maps unchanged.
C9_UnknownIdentityNoOp ==
    (/\ last.op \in {"subscribe_connection", "unsubscribe_connection"}
     /\ last.id \notin DOMAIN active_connections)
    => (last.out = "ok" /\ ~last.changed)

\* C10: a malformed inbound message on either endpoint leaves the four maps
\* unchanged and the handler waiting for the next message.
C10_MalformedIsDropped ==
    [][\A n \in ConnIds, what \in {"notjson", "nonobject"} :
          RecvMalformed(n, what) =>
              (handler'[n].pc = "recv" /\ UNCHANGED maps)]_vars

\* C11: send_to_connection with an identity that is not in active_connections
\* returns False, changes none of the four maps and starts no write.
C11_SendUnknownReturnsFalse ==
    [][\A x \in Ids :
          (CallSend(x) /\ x \notin DOMAIN active_connections) =>
              /\ last'.op = "send_to_connection" /\ last'.id = x
              /\ last'.out = "False"
              /\ UNCHANGED maps
              /\ send'.pc = "idle"
              /\ \A o \in Owners : bcast'[o].pc # "writing"]_vars

\* C11 witness: send_to_connection was called with the id that was never
\* registered, while a connection is registered; it returned False.
C11_Witness ==
    /\ last.op = "send_to_connection"
    /\ last.id = GhostId
    /\ last.out = "False"
    /\ ~last.changed
    /\ send.pc = "idle"
    /\ active_connections # <<>>

\* C12: send_to_connection with a registered identity x starts one write, to
\* x, and changes nothing before it completes.  When the write succeeds the
\* call returns True and leaves the four maps unchanged; when it fails the
\* call returns False and x is in no map and in no subscriber set, the channels
\* it empties are dropped, and every other entry is as it was.
C12_SendOneWrite ==
    [][/\ \A x \in Ids :
             (CallSend(x) /\ x \in DOMAIN active_connections) =>
                 (send' = [pc |-> "writing", id |-> x] /\ UNCHANGED maps)
       /\ SendDone(TRUE) =>
             /\ last'.op = "send_to_connection" /\ last'.id = send.id
             /\ last'.out = "True"
             /\ UNCHANGED maps
             /\ send'.pc = "idle"
       /\ SendDone(FALSE) =>
             /\ last'.op = "send_to_connection" /\ last'.id = send.id
             /\ last'.out = "False"
             /\ send'.pc = "idle"
             /\ Absent(send.id)'
             /\ \A y \in DOMAIN active_connections \ {send.id} :
                   /\ y \in DOMAIN active_connections'
                   /\ active_connections'[y] = active_connections[y]
                   /\ connection_metadata'[y] = connection_metadata[y]
                   /\ connection_channels'[y] = connection_channels[y]
             /\ DOMAIN channel_subscriptions' =
                   {c \in DOMAIN channel_subscriptions :
                       channel_subscriptions[c] \ {send.id} # {}}
             /\ \A c \in DOMAIN channel_subscriptions' :
                   channel_subscriptions'[c] =
                       channel_subscriptions[c] \ {send.id}]_vars

\* C12 witness: a send_to_connection whose write failed has returned False
\* and evicted its target, while another connection is still registered and
\* subscribed.
C12_Witness ==
    /\ last.op = "send_to_connection"
    /\ last.out = "False"
    /\ last.changed
    /\ last.id \in ConnIds
    /\ Absent(last.id)
    /\ \E y \in DOMAIN active_connections : connection_channels[y] # {}

\* C13: broadcast_to_channel on a channel that has no entry in
\* channel_subscriptions returns at once: it writes to no connection, changes
\* none of the four maps and does not touch the caller's payload.
C13_EmptyChannelNoEffect ==
    [][/\ \A ch \in Channels :
             (CallBroadcast(ch) /\ ch \notin DOMAIN channel_subscriptions) =>
                 /\ bcast'[ExtCaller].pc = "returned"
                 /\ bcast'[ExtCaller].visited = {}
                 /\ ~bcast'[ExtCaller].stamped
                 /\ UNCHANGED maps
       /\ \A n \in ConnIds :
             (RecvMessage(n) /\ handler[n].chan \notin DOMAIN channel_subscriptions) =>
                 /\ bcast'[n].pc = "returned"
                 /\ bcast'[n].visited = {}
                 /\ ~bcast'[n].stamped
                 /\ handler'[n].pc = "recv"
                 /\ UNCHANGED maps]_vars

\* C13 witness: a broadcast to "system" has returned while connections are
\* registered and subscribed elsewhere but "system" has no entry.
C13_Witness ==
    /\ bcast[ExtCaller].pc = "returned"
    /\ bcast[ExtCaller].channel = "system"
    /\ ~bcast[ExtCaller].stamped
    /\ "system" \notin DOMAIN channel_subscriptions
    /\ channel_subscriptions # <<>>

\* C14: in every reachable state, for every registered identity x and every
\* channel c, subscribe_connection(x, c) raises nothing and a second
\* subscribe_connection(x, c) right after it leaves all four maps as the
\* first left them.
C14_SubscribeIdempotent ==
    \A x \in DOMAIN active_connections, c \in Channels :
        LET once  == SubscribeConnection(Mgr, x, c)
            twice == SubscribeConnection(once.m, x, c)
        IN /\ once.err = "none"
           /\ twice.err = "none"
           /\ twice.m = once.m
           /\ x \in once.m.cs[c]
           /\ c \in once.m.cc[x]

\* C14 witness: subscribe_connection was called for a registered identity
\* and a channel it had already joined, and changed nothing.
C14_Witness ==
    /\ last.op = "subscribe_connection"
    /\ last.out = "ok"
    /\ ~last.changed
    /\ last.id \in DOMAIN active_connections
    /\ last.ch \in connection_channels[last.id]

\* C15: unsubscribe_connection(x, c) when x is the only subscriber of c
\* removes c from channel_subscriptions, lowers total_channels of
\* get_connection_stats by exactly one and leaves every other channel's
\* subscriber set as it was.
C15_LastUnsubscribeDropsChannel ==
    [][\A x \in Ids, c \in Channels :
          (/\ c \in DOMAIN channel_subscriptions
           /\ channel_subscriptions[c] = {x}
           /\ CallUnsubscribeConnection(x, c)) =>
              /\ c \notin DOMAIN channel_subscriptions'
              /\ GetConnectionStats(Mgr').total_channels =
                     GetConnectionStats(Mgr).total_channels - 1
              /\ c \notin DOMAIN GetConnectionStats(Mgr').channel_stats
              /\ \A d \in DOMAIN channel_subscriptions \ {c} :
                    /\ d \in DOMAIN channel_subscriptions'
                    /\ channel_subscriptions'[d] = channel_subscriptions[d]]_vars

\* C15 witness: unsubscribe_connection has just removed a channel's only
\* subscriber and with it the channel, while another channel still has its
\* subscribers.
C15_Witness ==
    /\ last.op = "unsubscribe_connection"
    /\ last.changed
    /\ last.id \in DOMAIN active_connections
    /\ last.ch \notin DOMAIN channel_subscriptions
    /\ GetConnectionStats(Mgr).total_channels = 1
    /\ \A c \in DOMAIN channel_subscriptions :
          channel_subscriptions[c] \subseteq DOMAIN active_connections

\* C16: unsubscribe_connection(x, c) for a registered x that is not in c's
\* subscriber set, whether c has other subscribers or no entry at all,
\* returns normally and leaves all four maps unchanged.
C16_UnsubscribeNotJoinedNoOp ==
    [][\A x \in Ids, c \in Channels :
          (/\ x \in DOMAIN active_connections
           /\ (c \notin DOMAIN channel_subscriptions
                  \/ x \notin channel_subscriptions[c])
           /\ CallUnsubscribeConnection(x, c)) =>
              /\ last'.out = "ok"
              /\ ~last'.changed
              /\ UNCHANGED maps]_vars

\* C16 witness: unsubscribe_connection was called for a registered identity
\* and a channel that only another connection subscribes to, and changed
\* nothing.
C16_Witness ==
    /\ last.op = "unsubscribe_connection"
    /\ ~last.changed
    /\ last.id \in DOMAIN active_connections
    /\ last.ch \in DOMAIN channel_subscriptions
    /\ last.id \notin channel_subscriptions[last.ch]
    /\ \E y \in DOMAIN active_connections : y \in channel_subscriptions[last.ch]

\* C17: disconnect_by_id with an identity that is not in active_connections,
\* and disconnect with a socket that maps to no registered identity, return
\* normally and leave all four maps unchanged.
C17_AbsentRemovalNoOp ==
    [][/\ \A x \in Ids :
             (x \notin DOMAIN active_connections /\ CallDisconnectById(x)) =>
                 (last'.out = "ok" /\ UNCHANGED maps)
       /\ \A n \in ConnIds :
             (Resolve(active_connections, Ws(n)) = NoneId /\ ClientDisconnect(n)) =>
                 UNCHANGED maps]_vars

\* The same for the identities that are in no map and in no subscriber set.
AbsentRemovalNoOpWhenInNoSet ==
    [][/\ \A x \in Ids :
             (Absent(x) /\ CallDisconnectById(x)) =>
                 (last'.out = "ok" /\ UNCHANGED maps)
       /\ \A n \in ConnIds :
             (Resolve(active_connections, Ws(n)) = NoneId /\ ClientDisconnect(n)) =>
                 UNCHANGED maps]_vars

\* disconnect_by_id was called for an identity evicted before, while another
\* connection is registered and subscribed, and changed nothing.
AbsentRemovalReached ==
    /\ last.op = "disconnect_by_id"
    /\ ~last.changed
    /\ last.id \in ConnIds
    /\ \E y \in DOMAIN active_connections : connection_channels[y] # {}

\* The connection n is registered and subscribed to the status channel.
OnSystem(n) ==
    /\ n \in DOMAIN active_connections
    /\ "system" \in DOMAIN channel_subscriptions
    /\ n \in channel_subscriptions["system"]

\* The publisher's current cycle has written the system_status envelope to n.
Delivered(n) ==
    /\ n \in bcast[ExtCaller].visited \ bcast[ExtCaller].failed
    /\ bcast[ExtCaller].cur # n

\* The publisher's write to n never completes.
StalledOn(n) == bcast[ExtCaller].pc = "stalled" /\ bcast[ExtCaller].cur = n

\* C18: the status publisher survives a cycle that raises: a connection whose
\* transport completes its writes and that stays subscribed to "system"
\* receives a system_status envelope again and again, whatever happened in
\* earlier cycles.
C18_PublisherKeepsPublishing ==
    \A n \in 1..AppConn :
        ([]~StalledOn(n) /\ <>[]OnSystem(n)) => []<>Delivered(n)

\* The same when no write of the publisher stalls.
PublisherKeepsPublishingUnlessStalled ==
    \A n \in 1..AppConn :
        ([](bcast[ExtCaller].pc # "stalled") /\ <>[]OnSystem(n)) => []<>Delivered(n)

\* A cycle of the publisher has raised, and a later cycle has written the
\* envelope to a subscriber.
PublisherResumed ==
    /\ publisher.erred
    /\ publisher.pc = "sleep30"
    /\ bcast[ExtCaller].pc = "returned"
    /\ \E n \in 1..AppConn : OnSystem(n) /\ Delivered(n)

\* C19: a broadcast whose write to one recipient never completes still ends.
C19_BroadcastEnds ==
    \A o \in Owners :
        (bcast[o].pc = "stalled") ~> (bcast[o].pc \in {"returned", "raised"})

\* C20: a connection accepted on /ws/workflow/{id} is a subscriber of
\* "workflow:{id}" from the step that registers it; every JSON object it
\* sends afterwards starts a broadcast to that channel with the sender
\* excluded, which never writes to the sender and, when it is over, has
\* written to every other registered subscriber that stayed in the channel.
C20_WorkflowMessagesFanOut ==
    [][/\ \A ch \in WorkflowChannels :
             Connect("workflow", ch) =>
                 /\ ch \in DOMAIN channel_subscriptions'
                 /\ nextId \in channel_subscriptions'[ch]
                 /\ ch \in connection_channels'[nextId]
       /\ \A n \in ConnIds :
             /\ RecvMessage(n) =>
                   /\ bcast'[n].channel = handler[n].chan
                   /\ bcast'[n].exclude = Ws(n)
             /\ n \notin bcast'[n].visited
             /\ (Ends(n, "returned") \/ Ends(n, "raised")) =>
                   Stable(n) \subseteq bcast'[n].visited]_vars

\* The same for the broadcasts that return normally.
WorkflowMessagesFanOutOnReturn ==
    [][/\ \A ch \in WorkflowChannels :
             Connect("workflow", ch) =>
                 /\ ch \in DOMAIN channel_subscriptions'
                 /\ nextId \in channel_subscriptions'[ch]
                 /\ ch \in connection_channels'[nextId]
       /\ \A n \in ConnIds :
             /\ RecvMessage(n) =>
                   /\ bcast'[n].channel = handler[n].chan
                   /\ bcast'[n].exclude = Ws(n)
             /\ n \notin bcast'[n].visited
             /\ Ends(n, "returned") =>
                   Stable(n) \subseteq bcast'[n].visited]_vars

\* C21: in every broadcast, every text handed to send_text is the one
\* message_text of the call; it serializes the caller's payload with channel
\* set to the broadcast's channel, one timestamp, and every other field as
\* the caller passed it.
C21_OneEnvelopePerBroadcast ==
    \A o \in Owners :
        LET f == bcast[o]
        IN f.stamped =>
              /\ \A w \in f.wrote : w[2] = f.text
              /\ {w[1] : w \in f.wrote} = f.visited
              /\ f.text = Dumps(f.message)
              /\ DictKeys(f.message) = DictKeys(f.payload) \cup {"channel", "timestamp"}
              /\ DictGet(f.message, "channel") = f.channel
              /\ \E t \in 0..MaxClock : DictGet(f.message, "timestamp") = Isoformat(t)
              /\ \A k \in DictKeys(f.payload) \ {"channel", "timestamp"} :
                    DictGet(f.message, k) = DictGet(f.payload, k)

\* C21 witness: a broadcast of a payload that had channel and timestamp keys
\* of its own has written to two recipients, and time has passed since the
\* payload was stamped.
C21_Witness ==
    \E o \in Owners :
        /\ Cardinality(bcast[o].wrote) = 2
        /\ "channel" \in DictKeys(bcast[o].payload)
        /\ DictGet(bcast[o].message, "timestamp") # Isoformat(clock)

\* C22: connect registers one identity that was in no map and in no
\* subscriber set, with the accepted socket, a metadata record and a channel
\* set that is empty or holds exactly the initial channel; it leaves every
\* other connection's entries and subscriptions as they were, writes one
\* connection_established envelope carrying the identity, and returns the
\* identity when that write is done.
C22_ConnectRegistersOne ==
    [][/\ \A kind \in {"ws", "workflow"}, ch \in Channels \cup {"none"} :
             Connect(kind, ch) =>
                LET n == nextId
                IN /\ Absent(n)
                   /\ DOMAIN active_connections' = DOMAIN active_connections \cup {n}
                   /\ DOMAIN connection_metadata' = DOMAIN connection_metadata \cup {n}
                   /\ DOMAIN connection_channels' = DOMAIN connection_channels \cup {n}
                   /\ active_connections'[n] = Ws(n)
                   /\ connection_metadata'[n] = Metadata
                   /\ connection_channels'[n] = {ch} \ {"none"}
                   /\ \A y \in DOMAIN active_connections :
                         /\ active_connections'[y] = active_connections[y]
                         /\ connection_metadata'[y] = connection_metadata[y]
                         /\ connection_channels'[y] = connection_channels[y]
                   /\ DOMAIN channel_subscriptions' =
                         DOMAIN channel_subscriptions \cup ({ch} \ {"none"})
                   /\ \A c \in DOMAIN channel_subscriptions' :
                         /\ n \in channel_subscriptions'[c] <=> c = ch
                         /\ channel_subscriptions'[c] \ {n} =
                               IF c \in DOMAIN channel_subscriptions
                               THEN channel_subscriptions[c] ELSE {}
                   /\ handler'[n].pc = "welcome"
                   /\ handler'[n].reply = Welcome(n)
       /\ \A n \in ConnIds :
             /\ (handler'[n].pc = "welcome" /\ handler[n].pc # "welcome") =>
                   (handler[n].pc = "idle" /\ nextId = n)
             /\ WelcomeSent(n) =>
                   /\ last'.op = "connect" /\ last'.out = "returned"
                   /\ last'.id = n
                   /\ UNCHANGED maps
                   /\ handler'[n].reply = NoReply]_vars

\* C22 witness: connect has returned the identity of a second connection,
\* accepted on /ws/workflow/1 next to a first one that is still subscribed.
C22_Witness ==
    /\ last.op = "connect"
    /\ last.id = 2
    /\ handler[1].pc = "recv"
    /\ {1, 2} \subseteq DOMAIN active_connections
    /\ connection_channels[2] = {"workflow:1"}
    /\ "workflow:1" \in DOMAIN channel_subscriptions
    /\ channel_subscriptions["workflow:1"] = {1, 2}

\* C23: a subscribe request with channels L from a registered connection
\* puts the connection into every channel of L in both indices, leaves the
\* other connections' entries alone and starts one subscription_confirmed
\* envelope listing L, after which the handler waits for the next message;
\* for a socket that resolves to no registered identity nothing changes and
\* no confirmation is written.
C23_SubscribeRequest ==
    [][\A n \in ConnIds :
          /\ \A L \in SUBSET Channels :
                (handler[n].pc = "recv" /\ handler[n].kind = "ws"
                   /\ RecvSubscribe(n, L)) =>
                   IF Resolve(active_connections, Ws(n)) = NoneId
                   THEN UNCHANGED maps /\ UNCHANGED handler
                   ELSE /\ \A c \in L :
                              /\ c \in DOMAIN channel_subscriptions'
                              /\ n \in channel_subscriptions'[c]
                        /\ connection_channels'[n] = connection_channels[n] \cup L
                        /\ \A c \in DOMAIN channel_subscriptions' \ L :
                              /\ c \in DOMAIN channel_subscriptions
                              /\ channel_subscriptions'[c] = channel_subscriptions[c]
                        /\ \A y \in DOMAIN active_connections \ {n} :
                              connection_channels'[y] = connection_channels[y]
                        /\ active_connections' = active_connections
                        /\ handler'[n].pc = "confirm"
                        /\ handler'[n].reply = Confirmation(L)
          /\ (handler'[n].pc = "confirm" /\ handler[n].pc # "confirm") =>
                handler[n].pc = "recv"
          /\ (handler[n].pc = "confirm" /\ ReplySent(n)) =>
                (UNCHANGED maps /\ handler'[n].pc = "recv"
                   /\ handler'[n].reply = NoReply)]_vars

\* C23 witness: a connection is being sent the confirmation of a request
\* for both channels, one of which another connection had joined before.
C23_Witness ==
    \E n \in ConnIds :
        /\ handler[n].pc = "confirm"
        /\ handler[n].reply = Confirmation(Channels)
        /\ n \in DOMAIN active_connections
        /\ connection_channels[n] = Channels
        /\ "system" \in DOMAIN channel_subscriptions
        /\ \E y \in DOMAIN active_connections \ {n} :
              y \in channel_subscriptions["system"]

\* The other case of C23 happens: a /ws handler is waiting for a message
\* while its connection has been evicted, so that a subscribe request it
\* receives resolves to no identity.
SubscribeUnregisteredReached ==
    \E n \in ConnIds :
        /\ handler[n].pc = "recv" /\ handler[n].kind = "ws"
        /\ Resolve(active_connections, Ws(n)) = NoneId
        /\ last.op = "none"
        /\ ENABLED RecvSubscribe(n, {"system"})

\* The elements of a sequence.
Range(q) == {q[i] : i \in 1..Len(q)}

\* C24: get_connection_stats is a pure read.  The call changes none of the
\* four maps and starts no write (no broadcast frame, send frame or handler
\* moves), and its result counts the registered connections and the channels
\* of the index, gives the size of the subscriber set for exactly the
\* channels of the index, and lists the channel set of exactly the
\* identities that have a channel-set entry.
C24_StatsPureRead ==
    [][CallGetConnectionStats =>
          /\ UNCHANGED maps
          /\ UNCHANGED <<bcast, send, handler, publisher, api>>
          /\ LET r == last'.stats
             IN /\ r.total_connections = Cardinality(DOMAIN active_connections)
                /\ r.total_channels = Cardinality(DOMAIN channel_subscriptions)
                /\ DOMAIN r.channel_stats = DOMAIN channel_subscriptions
                /\ \A c \in DOMAIN channel_subscriptions :
                      r.channel_stats[c] = Cardinality(channel_subscriptions[c])
                /\ DOMAIN r.connections_by_channel = DOMAIN connection_channels
                /\ \A x \in DOMAIN connection_channels :
                      /\ Range(r.connections_by_channel[x]) = connection_channels[x]
                      /\ Len(r.connections_by_channel[x]) =
                            Cardinality(connection_channels[x])]_vars

\* C24 witness: statistics were returned while one connection had two
\* channels, another had none, and a subscriber set held an identity that
\* is not registered.
C24_Witness ==
    /\ last.op = "get_connection_stats"
    /\ last.stats.total_connections = 2
    /\ last.stats.total_channels = 2
    /\ \E x, y \in DOMAIN connection_channels :
          /\ connection_channels[x] = Channels
          /\ connection_channels[y] = {}
    /\ \E c \in DOMAIN channel_subscriptions :
          ~(channel_subscriptions[c] \subseteq DOMAIN active_connections)

\* C25: the status publisher is cancellable as a unit.  Cancelled while it
\* sleeps or while its broadcast is suspended in a write, the task ends: the
\* error handler of the cycle does not put it back to sleep, its broadcast
\* is left without another write and without touching the maps, and from
\* then on the task stays ended and starts no system_status broadcast.
C25_PublisherCancellable ==
    [][/\ CancelPublisher =>
             /\ publisher'.pc = "cancelled"
             /\ bcast'[ExtCaller].pc \notin {"writing", "stalled"}
             /\ bcast'[ExtCaller].visited \subseteq bcast[ExtCaller].visited
             /\ UNCHANGED maps
       /\ publisher.pc = "cancelled" =>
             /\ publisher' = publisher
             /\ ~StatusCycle
             /\ bcast'[ExtCaller].pc \notin {"writing", "stalled"}
             /\ bcast'[ExtCaller].wrote \subseteq bcast[ExtCaller].wrote]_vars

\* C25 witness: the task was cancelled while its broadcast was suspended in
\* a write to one of two subscribers of "system", and a client has
\* subscribed since.
C25_Witness ==
    /\ publisher.pc = "cancelled"
    /\ bcast[ExtCaller].pc = "raised"
    /\ bcast[ExtCaller].err = "CancelledError"
    /\ Cardinality(bcast[ExtCaller].visited) = 1
    /\ "system" \in DOMAIN channel_subscriptions
    /\ Cardinality(channel_subscriptions["system"]) = 2

\* The task is also cancelled in its sleep after a cycle that raised.
CancelledInSleepReached ==
    /\ publisher.pc = "cancelled"
    /\ bcast[ExtCaller].pc = "idle"
    /\ publisher.erred

\* C26: within one broadcast the eviction comes after the fan-out loop.  A
\* step of the broadcast that goes on to the next write leaves the four maps
\* as they are, and when the call is over, however it ends, every identity
\* it recorded as failed is absent from the maps and the subscriber sets.
C26_EvictionAfterLoop ==
    [][\A o \in Owners :
          /\ (\E ok \in BOOLEAN : WriteDone(o, ok)) =>
                /\ bcast'[o].pc = "writing" => UNCHANGED maps
                /\ \A x \in DOMAIN active_connections \ DOMAIN active_connections' :
                      x \in bcast'[o].failed /\ bcast'[o].pc # "writing"
          /\ (Ends(o, "returned") \/ Ends(o, "raised")) =>
                \A x \in bcast'[o].failed : Absent(x)']_vars

\* The same for the calls that leave the loop normally, whether the log call
\* of line 244 then raises or not, stated on the frame's error.
EvictionAfterLoopUnlessLoopRaises ==
    [][\A o \in Owners :
          /\ (\E ok \in BOOLEAN : WriteDone(o, ok)) =>
                /\ bcast'[o].pc = "writing" => UNCHANGED maps
                /\ \A x \in DOMAIN active_connections \ DOMAIN active_connections' :
                      x \in bcast'[o].failed /\ bcast'[o].pc # "writing"
          /\ ((Ends(o, "returned") \/ Ends(o, "raised"))
                /\ bcast'[o].err # "RuntimeError") =>
                \A x \in bcast'[o].failed : Absent(x)']_vars

\* A broadcast whose first write failed went on to a second recipient, with
\* the first still registered, and is over now with the first evicted.
EvictionAfterLoopReached ==
    \E o \in Owners :
        /\ bcast[o].pc \in {"returned", "raised"}
        /\ Cardinality(bcast[o].visited) >= 2
        /\ bcast[o].failed # {}
        /\ bcast[o].failed # bcast[o].visited
        /\ \A x \in bcast[o].failed : Absent(x)

\* The broadcast of owner o is suspended in a write to recipient r.
SuspendedOn(o, r) ==
    bcast[o].pc \in {"writing", "stalled"} /\ bcast[o].cur = r

\* While a broadcast is suspended in a write to r, every other connection's
\* next operation can run: a new socket can be accepted and welcomed, a
\* waiting handler can subscribe or disconnect, a subscription can be
\* confirmed, and any other identity can be unsubscribed.
OthersCanRun ==
    \A o \in Owners, r \in ConnIds :
        SuspendedOn(o, r) =>
            /\ nextId <= AppConn => ENABLED ConnectWs
            /\ \A x \in KnownIds \ {r}, ch \in Channels :
                  ENABLED CallUnsubscribeConnection(x, ch)
            /\ \A n \in ConnIds \ {r} :
                  /\ handler[n].pc = "welcome" => ENABLED WelcomeSent(n)
                  /\ handler[n].pc = "confirm" => ENABLED ReplySent(n)
                  /\ handler[n].pc = "recv" =>
                        /\ ENABLED ClientDisconnect(n)
                        /\ \A L \in SUBSET Channels : ENABLED RecvSubscribe(n, L)

\* What such an operation does takes effect in its own step, in which the
\* broadcast stays suspended in the same write.
OthersTakeEffect ==
    \A o \in Owners, r \in ConnIds :
        SuspendedOn(o, r) =>
            /\ ConnectWs =>
                  /\ nextId \in DOMAIN active_connections'
                  /\ SuspendedOn(o, r)'
            /\ \A n \in ConnIds \ {r} :
                  /\ (WelcomeSent(n) \/ ReplySent(n)) =>
                        (handler'[n].pc = "recv" /\ SuspendedOn(o, r)')
                  /\ ClientDisconnect(n) =>
                        (Absent(n)' /\ SuspendedOn(o, r)')
                  /\ \A L \in SUBSET Channels :
                        (RecvSubscribe(n, L) /\ n \in DOMAIN active_connections) =>
                            /\ \A c \in L : n \in channel_subscriptions'[c]
                            /\ L \subseteq connection_channels'[n]
                            /\ SuspendedOn(o, r)'
            /\ \A x \in KnownIds \ {r}, ch \in Channels :
                  CallUnsubscribeConnection(x, ch) =>
                      /\ ch \in DOMAIN channel_subscriptions' =>
                            x \notin channel_subscriptions'[ch]
                      /\ x \in DOMAIN connection_channels' =>
                            ch \notin connection_channels'[x]
                      /\ SuspendedOn(o, r)'

\* C27: a slow or stalled recipient does not block unrelated connections.
\* While a broadcast is suspended in a write to R, connect, subscribe,
\* unsubscribe_connection and disconnect for connections other than R can
\* run to completion, and their state changes take effect before that write
\* completes.
C27_StalledRecipientDoesNotBlock ==
    []OthersCanRun /\ [][OthersTakeEffect]_vars

\* C27 witness: a broadcast is still suspended in its write to connection
\* 1, and since that write began a second connection has subscribed to the
\* broadcast's channel and got its confirmation.
C27_Witness ==
    /\ SuspendedOn(ExtCaller, 1)
    /\ 2 \in bcast[ExtCaller].added
    /\ 2 \in DOMAIN active_connections
    /\ handler[2].pc = "recv"
    /\ bcast[ExtCaller].channel \in connection_channels[2]

\* The same happens next to a recipient that has stopped reading for good:
\* a connection accepted after the write stalled has subscribed.
StalledDoesNotBlockReached ==
    /\ SuspendedOn(ExtCaller, 1)
    /\ bcast[ExtCaller].pc = "stalled"
    /\ bcast[ExtCaller].startLen = 1
    /\ 2 \in DOMAIN active_connections
    /\ handler[2].pc = "recv"
    /\ bcast[ExtCaller].channel \in connection_channels[2]

\* C28: no terminated handler leaves its connection registered.  Whenever an
\* endpoint handler has ended (the client disconnected, handling a message
\* raised, broadcast_to_channel raised, or the welcome write of connect
\* failed), its connection is in none of the maps and in no subscriber set.
C28_TerminatedHandlerUnregistered ==
    \A n \in ConnIds :
        handler[n].pc \in {"closed", "failed", "crashed"} => Absent(n)

\* The same for the handlers that end in a branch that calls disconnect: the
\* "except WebSocketDisconnect" of both endpoints and the "except Exception"
\* of /ws.
HandlerThatDisconnectsUnregistered ==
    \A n \in ConnIds :
        handler[n].pc \in {"closed", "failed"} => Absent(n)

\* A handler has ended through disconnect while another connection is
\* registered and subscribed.
HandlerThatDisconnectsReached ==
    \E n, y \in ConnIds :
        /\ handler[n].pc \in {"closed", "failed"}
        /\ Absent(n)
        /\ y \in DOMAIN active_connections
        /\ connection_channels[y] # {}

\* The subscribers of channel ch in the manager that the WebSocket endpoints
\* use which are registered, were welcomed, and whose handler is waiting for
\* the client's next message.
LiveSubscribers(ch) ==
    IF ch \in DOMAIN channel_subscriptions
    THEN {x \in channel_subscriptions[ch] \cap DOMAIN active_connections :
            x \in ConnIds /\ handler[x].pc = "recv"}
    ELSE {}

\* C29: application events reach the live subscribers.  The broadcast that
\* update_workflow issues on "workflow:{id}" is resolved against the
\* registry and index in which the WebSocket endpoints register their
\* connections: when it is over, every connection that is registered and
\* subscribed to that channel there has been written the envelope.
C29_EventsReachSubscribers ==
    [][\A ch \in WorkflowChannels :
          (UpdateWorkflow(ch) /\ api'.f.pc \in {"returned", "raised"}) =>
              LiveSubscribers(ch) \subseteq api'.f.visited]_vars

\* The manager of workflows.py never holds a connection, so each of its
\* broadcasts returns at line 205 without a write.
EndpointManagerStaysEmpty ==
    /\ api.m = EmptyManager
    /\ api.f.visited = {}
    /\ api.f.pc \in {"idle", "returned"}

\* A broadcast of the same payload on the manager of main.py does reach the
\* subscriber: the envelope was written to a connection of /ws/workflow/1.
MainManagerBroadcastReached ==
    /\ bcast[ExtCaller].pc = "returned"
    /\ bcast[ExtCaller].payload = WorkflowUpdated
    /\ bcast[ExtCaller].visited # {}
    /\ bcast[ExtCaller].failed = {}

\* C30: no dangling subscribers.  In every state between the steps of the
\* endpoint handlers, the broadcasts, the targeted sends and the status
\* publisher, every identity in a channel's subscriber set is a key of
\* active_connections.
C30_NoDanglingSubscribers ==
    \A c \in DOMAIN channel_subscriptions :
        channel_subscriptions[c] \subseteq DOMAIN active_connections

\* C30 witness: a connection that /ws/workflow/{id} had subscribed to its
\* channel has been removed, by an eviction or by its handler's disconnect,
\* while another connection stays subscribed to the same channel.
C30_Witness ==
    \E c \in DOMAIN channel_subscriptions, x \in ConnIds :
        /\ x < nextId
        /\ handler[x].kind = "workflow" /\ handler[x].chan = c
        /\ x \notin DOMAIN active_connections
        /\ channel_subscriptions[c] # {}

\* The same state is reached through the eviction of a broadcast: the
\* evicted connection's handler is still waiting for a message.
EvictedSubscriberReached ==
    \E c \in DOMAIN channel_subscriptions, x \in ConnIds :
        /\ handler[x].kind = "workflow" /\ handler[x].chan = c
        /\ handler[x].pc = "recv"
        /\ x \notin DOMAIN active_connections
        /\ channel_subscriptions[c] # {}

\* C31: the three per-connection maps describe the same set of connections.
\* In every state between operations the key sets of active_connections,
\* connection_metadata and connection_channels are equal, whatever sequence
\* of connect, disconnect, subscribe, unsubscribe, broadcast and send
\* operations led there.
C31_SameKeySets ==
    /\ DOMAIN active_connections = DOMAIN connection_metadata
    /\ DOMAIN active_connections = DOMAIN connection_channels

\* C31 witness: one connection has been removed while its handler is still
\* waiting for a message, another is registered, and a subscriber set holds
\* an identity that no map knows.
C31_Witness ==
    /\ \E x \in 1..(nextId - 1) :
          /\ x \notin DOMAIN active_connections
          /\ handler[x].pc = "recv"
    /\ DOMAIN active_connections # {}
    /\ \E c \in DOMAIN channel_subscriptions :
          ~(channel_subscriptions[c] \subseteq DOMAIN active_connections)

\* The broadcast of owner o starts a write to x in this step: its call
\* begins with x as first recipient, or its pending write completes and the
\* loop goes on to x.
StartsWrite(o, x) ==
    /\ bcast'[o].pc = "writing"
    /\ bcast'[o].cur = x
    /\ bcast[o].pc # "writing" \/ (\E ok \in BOOLEAN : WriteDone(o, ok))

\* send_to_connection starts its write to x in this step.
StartsSend(x) ==
    send.pc # "writing" /\ send'.pc = "writing" /\ send'.id = x

\* C32: an evicted connection receives nothing further from the manager.
\* Once an identity has been removed from active_connections, no step of
\* broadcast_to_channel or send_to_connection starts a write to it, neither
\* in a new call nor in a broadcast that was suspended in a write when the
\* identity was removed.
C32_NoWriteAfterEviction ==
    [][\A x \in 1..(nextId - 1) :
          x \notin DOMAIN active_connections =>
              /\ \A o \in Owners : ~StartsWrite(o, x)
              /\ ~StartsSend(x)]_vars

\* C32 witness: a broadcast has returned after writing to connection 1 only,
\* although the removed connection 2 is in the channel's subscriber set.
C32_Witness ==
    /\ bcast[ExtCaller].pc = "returned"
    /\ bcast[ExtCaller].visited = {1}
    /\ 2 < nextId
    /\ 2 \notin DOMAIN active_connections
    /\ bcast[ExtCaller].channel \in DOMAIN channel_subscriptions
    /\ 2 \in channel_subscriptions[bcast[ExtCaller].channel]

\* A broadcast is suspended in its write to connection 1 while connection 2,
\* removed since that write began, is again in the subscriber set the loop
\* iterates: the loop's next step has 2 before it and skips it.
RemovedDuringWriteReached ==
    /\ bcast[ExtCaller].pc = "writing"
    /\ bcast[ExtCaller].cur = 1
    /\ bcast[ExtCaller].startLen = 2
    /\ 2 \in bcast[ExtCaller].added
    /\ 2 \notin DOMAIN active_connections
    /\ ~bcast[ExtCaller].gone

\* A send to a removed identity was refused.
SendToRemovedRefused ==
    /\ last.op = "send_to_connection"
    /\ last.out = "False"
    /\ last.id \in 1..(nextId - 1)
    /\ last.id \notin DOMAIN active_connections
    /\ ~last.changed

====
